---- MODULE Spec2Model ----
(***************************************************************************)
(* pyfim/core.py: Experiment construction (input resolution, raw merge,    *)
(* parameter extraction, data clean-up), Experiment.sanity_check,          *)
(* TwoChoiceExperiment.split_data and Collection.add_data.                 *)
(*                                                                         *)
(* Strings that the code parses, compares or sorts (row labels such as     *)
(* "head_x(10)", parameter names) are sequences of ASCII codes, so sorting,*)
(* prefix extraction and the substring test behave as Python's do.         *)
(* A DataFrame is a record [index, columns, data] with data[r][c] the cell *)
(* of row r and column c; a missing cell (NaN) is the value NaN.           *)
(***************************************************************************)
EXTENDS Integers, Sequences, FiniteSets, TLC

VARIABLES
    pc,          \* position in Experiment.__init__ / the object's life cycle
    f,           \* the argument f of Experiment.__init__
    fs,          \* the file system: what each path is, and each CSV's content
    defaults,    \* pyfim.config.default_parameters
    call,        \* the class constructed, keep_raw and include_subfolders
    files,       \* the list returned by _parse_files
    raw_data,    \* self.raw_data
    parameters,  \* self.parameters
    tables,      \* the per-parameter attributes set by setattr(self, p, ...)
    error,       \* the exception raised by the constructor, or "none"
    col,         \* a Collection: the one split_data returns, or one being filled
    added,       \* the add_data calls col has taken: <<label argument, experiment>>
    log          \* the records module_logger has emitted

vars == <<pc, f, fs, defaults, call, files, raw_data, parameters,
          tables, error, col, added, log>>

----------------------------------------------------------------------------
(* Bounds of the model. *)
MaxFiles == 2        \* CSV files of one experiment
MaxCols == 2         \* object columns of one CSV file
MaxFrame == 10       \* the largest frame number of a CSV file
MaxObjects == 2      \* objects of a drawn table
MaxCells == 4        \* objects x frames of a drawn table
MaxMinTrack == 3     \* the largest MIN_TRACK_LENGTH drawn
MaxCutRows == 4      \* frames of a table that is trimmed
MaxCut == 2          \* the largest CUT_TABLE_HEAD / CUT_TABLE_TAIL drawn
MaxFillRows == 4     \* frames of a gap-filled column
MaxGap == 2          \* the largest MAX_GAP_SIZE drawn
MaxSplitCells == 3   \* objects x frames of a table that is split
MaxAdds == 3         \* add_data calls on one Collection

----------------------------------------------------------------------------
(* Strings. *)
NaN == -1

LParen == 40
RParen == 41
Zero == 48

head_x == <<104, 101, 97, 100, 95, 120>>
area == <<97, 114, 101, 97>>
head == <<104, 101, 97, 100>>
velocity == <<118, 101, 108, 111, 99, 105, 116, 121>>
go_phase == <<103, 111, 95, 112, 104, 97, 115, 101>>

Min(a, b) == IF a < b THEN a ELSE b

\* Python's str < str: lexicographic by code point, a proper prefix is smaller.
StrLess(a, b) ==
    LET n == Min(Len(a), Len(b))
        diff == {i \in 1..n : a[i] # b[i]}
    IN  IF diff = {} THEN Len(a) < Len(b)
        ELSE LET i == CHOOSE k \in diff : \A j \in diff : k <= j
             IN  a[i] < b[i]

\* a.index(c): the first position of character c (0 when absent).
IndexOf(s, c) ==
    IF \E i \in 1..Len(s) : s[i] = c
    THEN CHOOSE i \in 1..Len(s) : s[i] = c /\ \A j \in 1..(i-1) : s[j] # c
    ELSE 0

\* p in i: p occurs as a contiguous substring of i.
Contains(i, p) ==
    \E k \in 0..(Len(i) - Len(p)) : \A j \in 1..Len(p) : i[k + j] = p[j]

\* '{0}'.format(n) for a frame number: its decimal digits.
RECURSIVE Digits(_)
Digits(n) == IF n < 10 THEN <<Zero + n>> ELSE Digits(n \div 10) \o <<Zero + (n % 10)>>

\* int(s) for a string of decimal digits.
RECURSIVE ParseInt(_)
ParseInt(s) ==
    IF Len(s) = 0 THEN 0
    ELSE 10 * ParseInt(SubSeq(s, 1, Len(s) - 1)) + (s[Len(s)] - Zero)

\* The row label "name(frame)" of a FIMTrack CSV.
Label(name, frame) == name \o <<LParen>> \o Digits(frame) \o <<RParen>>

\* Experiment._index_sorter: ( parameter (str), frame (int) ).
IndexSorter(x) ==
    LET open == IndexOf(x, LParen)
        rest == SubSeq(x, open + 1, Len(x))
        close == IndexOf(rest, RParen)
    IN  <<SubSeq(x, 1, open - 1), ParseInt(SubSeq(rest, 1, close - 1))>>

\* Python's tuple comparison of two _index_sorter keys.
KeyLess(a, b) ==
    \/ StrLess(a[1], b[1])
    \/ a[1] = b[1] /\ a[2] < b[2]

\* The strict order sorted() compares with: of the _index_sorter keys when
\* by_key, of the strings themselves otherwise.
Less(by_key, a, b) ==
    IF by_key THEN KeyLess(IndexSorter(a), IndexSorter(b)) ELSE StrLess(a, b)

\* sorted(xs, key=...): a stable sort.
RECURSIVE Insert(_, _, _)
Insert(by_key, sorted, x) ==
    IF sorted = <<>> THEN <<x>>
    ELSE IF Less(by_key, x, Head(sorted)) THEN <<x>> \o sorted
    ELSE <<Head(sorted)>> \o Insert(by_key, Tail(sorted), x)

RECURSIVE Sorted(_, _)
Sorted(by_key, xs) ==
    IF xs = <<>> THEN <<>>
    ELSE Insert(by_key, Sorted(by_key, SubSeq(xs, 1, Len(xs) - 1)), xs[Len(xs)])

----------------------------------------------------------------------------
(* DataFrames. *)

IsNull(v) == v = NaN

NRows(df) == Len(df.index)
NCols(df) == Len(df.columns)

\* The positions of a sequence whose element satisfies Keep, in order.
RECURSIVE SelectPos(_, _)
SelectPos(n, keep) ==
    IF n = 0 THEN <<>>
    ELSE SelectPos(n - 1, keep) \o (IF n \in keep THEN <<n>> ELSE <<>>)

\* df.loc[rows]: the rows at the given positions, in the given order.
TakeRows(df, rows) ==
    [df EXCEPT !.index = [i \in 1..Len(rows) |-> df.index[rows[i]]],
               !.data = [i \in 1..Len(rows) |-> df.data[rows[i]]]]

\* df.loc[:, cols]: the columns at the given positions, in the given order.
TakeCols(df, cols) ==
    [df EXCEPT !.columns = [j \in 1..Len(cols) |-> df.columns[cols[j]]],
               !.data = [i \in 1..NRows(df) |->
                            [j \in 1..Len(cols) |-> df.data[i][cols[j]]]]]

\* The position of column label c in df (0 when absent).
ColPos(df, c) ==
    IF \E j \in 1..NCols(df) : df.columns[j] = c
    THEN CHOOSE j \in 1..NCols(df) : df.columns[j] = c
    ELSE 0

\* df[c].count(): the number of non-missing cells of column c.
Count(df, c) ==
    Cardinality({i \in 1..NRows(df) : ~IsNull(df.data[i][ColPos(df, c)])})

\* The elements of a sequence, each once, in order of first appearance.
RECURSIVE Unique(_)
Unique(xs) ==
    IF xs = <<>> THEN <<>>
    ELSE LET init == Unique(SubSeq(xs, 1, Len(xs) - 1))
             x == xs[Len(xs)]
         IN  IF \E i \in 1..Len(init) : init[i] = x THEN init ELSE Append(init, x)

RECURSIVE Flatten(_)
Flatten(xss) == IF xss = <<>> THEN <<>> ELSE Head(xss) \o Flatten(Tail(xss))

\* The row of df under label l, all-NaN when df has no such row.
RowOf(df, l) ==
    IF \E r \in 1..NRows(df) : df.index[r] = l
    THEN df.data[CHOOSE r \in 1..NRows(df) : df.index[r] = l]
    ELSE [j \in 1..NCols(df) |-> NaN]

\* pd.concat(data, axis=1, join='outer'): the columns side by side over the
\* union of the row labels. Equal indices keep their order; otherwise the
\* union is sorted as strings (sort_union) or kept in order of appearance,
\* depending on the pandas release.
Concat(data, sort_union) ==
    LET appear == Unique(Flatten([i \in 1..Len(data) |-> data[i].index]))
        same == \A i \in 1..Len(data) : data[i].index = data[1].index
        index == IF same THEN data[1].index
                 ELSE IF sort_union THEN Sorted(FALSE, appear) ELSE appear
    IN  [index |-> index,
         columns |-> Flatten([i \in 1..Len(data) |->
                        [j \in 1..NCols(data[i]) |-> <<i, data[i].columns[j]>>]]),
         data |-> [r \in 1..Len(index) |->
                     Flatten([i \in 1..Len(data) |-> RowOf(data[i], index[r])])]]

\* RepairedIndex sorting the labels themselves, as strings.
RepairedIndexAsStrings(index) == Sorted(FALSE, index)

\* Lines 269-272: re-sort the rows by (parameter, frame) and renumber the
\* columns object_0 .. object_(k-1) (column object_i is the label i).
RepairedIndex(index) == Sorted(TRUE, index)

Repair(df) ==
    LET fixed_ix == RepairedIndex(df.index)
        pos(l) == CHOOSE r \in 1..NRows(df) : df.index[r] = l
        sorted == TakeRows(df, [i \in 1..Len(fixed_ix) |-> pos(fixed_ix[i])])
    IN  [sorted EXCEPT !.index = fixed_ix,
                       !.columns = [j \in 1..NCols(df) |-> j - 1]]

----------------------------------------------------------------------------
(* Input resolution. *)

\* Paths and the file system they name: track<n>.csv files, a notes.txt,
\* and the directories data (the tracks and notes.txt), nested (only the
\* directory sub and notes.txt), sub (the tracks) and empty (notes.txt).
Path(stem, n, ext) == [stem |-> stem, n |-> n, ext |-> ext]
Track(n) == Path("track", n, ".csv")
Notes == Path("notes", 0, ".txt")
Dir(stem) == Path(stem, 0, "")

IsFile(x) == (x.stem = "track" /\ x.n \in 1..Len(fs)) \/ x = Notes
IsDir(x) == x \in {Dir("data"), Dir("nested"), Dir("sub"), Dir("empty")}
AllTracks == [i \in 1..Len(fs) |-> Track(i)]
\* os.listdir(x), each entry already joined to x.
ListDir(x) ==
    CASE x = Dir("data") -> AllTracks \o <<Notes>>
      [] x = Dir("sub") -> AllTracks
      [] x = Dir("nested") -> <<Notes, Dir("sub")>>
      [] OTHER -> <<Notes>>

\* The inputs of _parse_files.
None == [kind |-> "none"]
Str(path) == [kind |-> "str", path |-> path]
File(n) == [kind |-> "io", n |-> n]
List(items) == [kind |-> "list", items |-> items]
Number == [kind |-> "int"]

\* Python's truth value of f: None, '' and an empty list are false.
Truthy(x) ==
    CASE x.kind = "none" -> FALSE
      [] x.kind = "str" -> x.path # Path("", 0, "")
      [] x.kind = "list" -> x.items # <<>>
      [] OTHER -> TRUE

Ok(list) == [ok |-> TRUE, files |-> list]
Raise(msg) == [ok |-> FALSE, error |-> msg]

\* The results of a list of calls, joined; the first raise wins.
RECURSIVE Join(_)
Join(rs) ==
    IF rs = <<>> THEN Ok(<<>>)
    ELSE IF ~Head(rs).ok THEN Head(rs)
    ELSE LET rest == Join(Tail(rs))
         IN  IF rest.ok THEN Ok(Head(rs).files \o rest.files) ELSE rest

\* _parse_files(x, include_subfolders)
RECURSIVE ParseFiles(_, _)
ParseFiles(x, include_subfolders) ==
    CASE x.kind = "list" ->
            Join([i \in 1..Len(x.items) |-> ParseFiles(x.items[i], FALSE)])
      [] x.kind = "str" ->
            IF IsFile(x.path) THEN Ok(<<x>>)
            ELSE IF IsDir(x.path) THEN
                LET ls == ListDir(x.path)
                    found == SelectPos(Len(ls),
                                {i \in 1..Len(ls) : ls[i].ext = defaults.FILE_FORMAT})
                    dirs == SelectPos(Len(ls), {i \in 1..Len(ls) : IsDir(ls[i])})
                    here == Ok([i \in 1..Len(found) |-> Str(ls[found[i]])])
                IN  IF include_subfolders
                    THEN Join(<<here>> \o
                              [i \in 1..Len(dirs) |-> ParseFiles(Str(ls[dirs[i]]), TRUE)])
                    ELSE here
            ELSE Raise("Unable to intepret - appears to be neither a file nor a folder")
      [] x.kind = "io" -> Ok(<<x>>)
      [] OTHER -> Raise("Unable to intepret inputs of type")

\* pd.read_csv(fn, index_col=0) of a resolved source.
ReadCsv(fn) == IF fn.kind = "io" THEN fs[fn.n] ELSE fs[fn.path.n]

----------------------------------------------------------------------------
(* Experiment: extraction and the accessors clean_data uses. *)

Range(xs) == {xs[i] : i \in 1..Len(xs)}

NoData == [index |-> <<>>, columns |-> <<>>, data |-> <<>>]

\* Line 307: p[ : p.index('(') ], the parameter name of a row label.
ParamOf(label) == SubSeq(label, 1, IndexOf(label, LParen) - 1)

\* Line 307: sorted( set( ... ) ) of the names of all rows.
FindParameters(raw) ==
    Sorted(FALSE, Unique([i \in 1..NRows(raw) |-> ParamOf(raw.index[i])]))

\* Line 315: the rows extracted for parameter p, [ p in i for i in index ].
RowsOf(raw, p) ==
    SelectPos(NRows(raw), {i \in 1..NRows(raw) : Contains(raw.index[i], p)})

\* Lines 315-318: the table of parameter p, its index changed to frames.
ExtractTable(raw, p) ==
    LET values == TakeRows(raw, RowsOf(raw, p))
    IN  [values EXCEPT !.index = [i \in 1..NRows(values) |-> i - 1]]

\* Lines 313-321: one attribute per parameter.
ExtractTables(raw) ==
    [p \in Range(FindParameters(raw)) |-> ExtractTable(raw, p)]

\* The column labels of a set, sorted as the strings 'object_<i>' sort.
RECURSIVE SortedLabels(_)
SortedLabels(S) ==
    IF S = {} THEN <<>>
    ELSE LET m == CHOOSE x \in S :
                    \A y \in S \ {x} : StrLess(Digits(x), Digits(y))
         IN  <<m>> \o SortedLabels(S \ {m})

\* Experiment.objects
Objects(params, tabs) ==
    SortedLabels(UNION {Range(tabs[params[i]].columns) : i \in 1..Len(params)})

\* Experiment.n_objects and Experiment.n_frames: the shape of parameters[0].
NObjects(params, tabs) == NCols(tabs[params[1]])
NFrames(params, tabs) == NRows(tabs[params[1]])

\* self[obj].count(): per parameter, the non-missing cells of obj's column.
\* (__getitem__ raises when obj is not among the objects.)
ObjectCounts(params, tabs, obj) ==
    [i \in 1..Len(params) |-> Count(tabs[params[i]], obj)]

----------------------------------------------------------------------------
(* Experiment.clean_data *)

Max(a, b) == IF a > b THEN a ELSE b

\* Line 372: the objects with an all-NaN column in any parameter.
HasAllNans(params, tabs) ==
    LET objs == Objects(params, tabs)
    IN  {objs[k] : k \in {k \in 1..Len(objs) :
            \E i \in 1..Len(params) : ObjectCounts(params, tabs, objs[k])[i] = 0}}

\* LongEnough with the comparison off by one: a track one sample short passes.
LongEnoughOffByOne(params, tabs, min_track_length) ==
    LET objs == Objects(params, tabs)
        dead == HasAllNans(params, tabs)
        keep == {k \in 1..Len(objs) :
                    /\ Count(tabs[head_x], objs[k]) >= min_track_length - 1
                    /\ objs[k] \notin dead}
        pos == SelectPos(Len(objs), keep)
    IN  [i \in 1..Len(pos) |-> objs[pos[i]]]

\* Lines 376-378: the objects with enough head_x samples, in objects' order.
LongEnough(params, tabs, min_track_length) ==
    LET objs == Objects(params, tabs)
        dead == HasAllNans(params, tabs)
        keep == {k \in 1..Len(objs) :
                    /\ Count(tabs[head_x], objs[k]) >= min_track_length
                    /\ objs[k] \notin dead}
        pos == SelectPos(Len(objs), keep)
    IN  [i \in 1..Len(pos) |-> objs[pos[i]]]

\* DropCols dropping only the columns that are empty in this very table.
DropColsOwnEmpty(df, labels) ==
    TakeCols(df, SelectPos(NCols(df),
        {j \in 1..NCols(df) : Count(df, df.columns[j]) # 0 \/ df.columns[j] \notin labels}))

\* Line 386: values.drop( labels, axis=1 )
DropCols(df, labels) ==
    TakeCols(df, SelectPos(NCols(df), {j \in 1..NCols(df) : df.columns[j] \notin labels}))

\* Line 391: values.loc[:, labels]
LocCols(df, labels) == TakeCols(df, [i \in 1..Len(labels) |-> ColPos(df, labels[i])])

\* A Python slice bound k on a sequence of n rows, as a row count.
SliceBound(n, k) == IF k >= 0 THEN Min(k, n) ELSE Max(n + k, 0)

\* df.iloc[ start : ] and df.iloc[ : stop ]
ILocFrom(df, start) ==
    LET a == SliceBound(NRows(df), start)
    IN  TakeRows(df, [i \in 1..(NRows(df) - a) |-> a + i])

ILocTo(df, stop) ==
    LET b == SliceBound(NRows(df), stop)
    IN  TakeRows(df, [i \in 1..b |-> i])

\* Lines 394-399: remove the first CUT_TABLE_HEAD and the last CUT_TABLE_TAIL
\* entries; a setting of 0 is skipped.
CutHead(df, head_cut) == IF head_cut # 0 THEN ILocFrom(df, head_cut) ELSE df
CutTail(df, tail_cut) == IF tail_cut # 0 THEN ILocTo(df, tail_cut) ELSE df

\* np.sqrt on the values the model draws for area parameters (squares).
Sqrt(v) == CHOOSE r \in 0..v : r * r = v

\* values * factor, or np.sqrt(values) * factor when root; NaN stays NaN.
Scale(df, root, factor) ==
    [df EXCEPT !.data = [i \in 1..NRows(df) |-> [j \in 1..NCols(df) |->
        LET v == df.data[i][j]
        IN  IF IsNull(v) THEN NaN
            ELSE IF root THEN Sqrt(v) * factor ELSE v * factor]]]

\* Lines 402-406: pixel to mm.
ToMM(p, df, cfg) ==
    IF ~cfg.PIXEL2MM THEN df
    ELSE IF p \in cfg.SPATIAL_PARAMS THEN Scale(df, FALSE, cfg.PIXEL_PER_MM)
    ELSE IF p \in cfg.AREA_PARAMS THEN Scale(df, TRUE, cfg.PIXEL_PER_MM)
    ELSE df

\* values.fillna( method='ffill', axis=0, limit=limit ) of one column: a
\* missing cell takes the last valid value above it when at most limit
\* missing cells separate them (itself included).
FFill(column, limit) ==
    [i \in 1..Len(column) |->
        IF ~IsNull(column[i]) THEN column[i]
        ELSE LET valid == {k \in 1..(i - 1) : ~IsNull(column[k])}
             IN  IF valid = {} THEN NaN
                 ELSE LET last == CHOOSE k \in valid : \A m \in valid : m <= k
                      IN  IF i - last <= limit THEN column[last] ELSE NaN]

\* Lines 412-420 on one column.
FillColumn(column, limit) ==
    LET zeros == {i \in 1..Len(column) : column[i] = 0}
        nulled == [i \in 1..Len(column) |-> IF i \in zeros THEN NaN ELSE column[i]]
        filled == FFill(nulled, limit)
    IN  [i \in 1..Len(column) |->
            IF i \in zeros /\ IsNull(filled[i]) THEN 0 ELSE filled[i]]

ColumnOf(df, j) == [i \in 1..NRows(df) |-> df.data[i][j]]

\* Lines 410-420: the gap fill of a thresholded parameter's table.
FillGaps(df, limit) ==
    LET cols == [j \in 1..NCols(df) |-> FillColumn(ColumnOf(df, j), limit)]
    IN  [df EXCEPT !.data = [i \in 1..NRows(df) |->
                                [j \in 1..NCols(df) |-> cols[j][i]]]]

\* Lines 381-423: the passes over one parameter's table.
CleanTable(p, values, has_all_nans, long_enough, cfg) ==
    LET dropped == DropCols(values, has_all_nans)
        kept == IF cfg.MIN_TRACK_LENGTH # 0 THEN LocCols(dropped, long_enough)
                ELSE dropped
        cut == CutTail(CutHead(kept, cfg.CUT_TABLE_HEAD), cfg.CUT_TABLE_TAIL)
        mm == ToMM(p, cut, cfg)
    IN  IF cfg.FILL_GAPS /\ p \in cfg.THRESHOLDED_PARAMS
        THEN FillGaps(mm, cfg.MAX_GAP_SIZE)
        ELSE mm

\* Experiment.clean_data: has_all_nans and long_enough are computed once,
\* from the tables as they are before any pass.
CleanTables(params, tabs, cfg) ==
    LET has_all_nans == HasAllNans(params, tabs)
        long_enough == LongEnough(params, tabs, cfg.MIN_TRACK_LENGTH)
    IN  [p \in DOMAIN tabs |->
            CleanTable(p, tabs[p], has_all_nans, long_enough, cfg)]

----------------------------------------------------------------------------
(* TwoChoiceExperiment.split_data *)

\* Mask with the boundary itself on neither side.
MaskStrict(tc_param, boundary, lower) ==
    {<<tc_param.index[i], tc_param.columns[j]>> :
        <<i, j>> \in {x \in (1..NRows(tc_param)) \X (1..NCols(tc_param)) :
            LET v == tc_param.data[x[1]][x[2]]
            IN  /\ ~IsNull(v)
                /\ IF lower THEN v < boundary ELSE v > boundary}}

\* Lines 607-608: the cell of tc_param at row label r, column label c lies
\* at or below (lower), or above, the boundary. A missing cell is in neither.
Mask(tc_param, boundary, lower) ==
    {<<tc_param.index[i], tc_param.columns[j]>> :
        <<i, j>> \in {x \in (1..NRows(tc_param)) \X (1..NCols(tc_param)) :
            LET v == tc_param.data[x[1]][x[2]]
            IN  /\ ~IsNull(v)
                /\ IF lower THEN v <= boundary ELSE v > boundary}}

\* data[ mask ]: the cells the mask does not select become missing.
Where(df, mask) ==
    [df EXCEPT !.data = [i \in 1..NRows(df) |-> [j \in 1..NCols(df) |->
        IF <<df.index[i], df.columns[j]>> \in mask THEN df.data[i][j] ELSE NaN]]]

\* df.dropna( axis=1, thresh=thresh ): keep the columns with at least
\* thresh non-missing cells.
DropNa(df, thresh) ==
    TakeCols(df, SelectPos(NCols(df),
        {j \in 1..NCols(df) : Count(df, df.columns[j]) >= thresh}))

\* Line 626
MaskedData(df, mask, cfg) == DropNa(Where(df, mask), cfg.MIN_TRACK_LENGTH)

\* Line 636: the objects present in all of an experiment's tables.
UnivObjects(tabs) ==
    {c \in UNION {Range(tabs[p].columns) : p \in DOMAIN tabs} :
        \A p \in DOMAIN tabs : c \in Range(tabs[p].columns)}

\* The orders list( set ) may give the elements of S.
Orders(S) ==
    {o \in [1..Cardinality(S) -> S] : \A i, j \in 1..Cardinality(S) : o[i] = o[j] => i = j}

\* Lines 620-639 for one side: the masked tables of the original
\* parameters, cut down to the universal objects in the order univ.
SideTables(tabs, mask, cfg, univ) ==
    [p \in DOMAIN tabs |-> LocCols(MaskedData(tabs[p], mask, cfg), univ)]

SideUniv(tabs, mask, cfg) ==
    UnivObjects([p \in DOMAIN tabs |-> MaskedData(tabs[p], mask, cfg)])

----------------------------------------------------------------------------
(* Experiment.sanity_check *)

\* Python values that are compared with each other: a str never equals a
\* bool, True equals the number 1.
PyStr(s) == [type |-> "str", v |-> s]
PyTrue == [type |-> "bool", v |-> 1]
PyEq(a, b) ==
    IF a.type = "str" \/ b.type = "str"
    THEN a.type = b.type /\ a.v = b.v
    ELSE a.v = b.v

\* Line 272: the column label the tables hold as i is 'object_<i>'.
ObjectLabel(i) == PyStr(<<111, 98, 106, 101, 99, 116, 95>> \o Digits(i))

\* key in series: the key is looked up among the labels of the Series'
\* index, not among its values.
SeriesContains(index, key) ==
    \E j \in 1..Len(index) : PyEq(ObjectLabel(index[j]), key)

\* Line 481: set( getattr(self, p).shape )
ShapeSet(values) == {NRows(values), NCols(values)}

\* Lines 482-483: the shapes' common numbers are more than two.
VaryingFrames(params, tabs) ==
    Cardinality({n \in ShapeSet(tabs[params[1]]) :
                    \A i \in 1..Len(params) : n \in ShapeSet(tabs[params[i]])}) > 2

\* Lines 488-490: some table lacks a column label another table has.
LabelMismatch(params, tabs) ==
    LET union == UNION {Range(tabs[params[i]].columns) : i \in 1..Len(params)}
    IN  \E i \in 1..Len(params) : \E l \in union : l \notin Range(tabs[params[i]].columns)

\* Line 498: True in ( getattr(self, p).count(axis=0) == 0 ), the Series
\* indexed by the column labels.
EmptyColumnsFound(df) == SeriesContains(df.columns, PyTrue)

Warning(msg, p) == [level |-> "warning", msg |-> msg, param |-> p]
Info(msg) == [level |-> "info", msg |-> msg, param |-> <<>>]

\* Lines 477-503: the records sanity_check logs.
SanityLog(params, tabs) ==
    LET frames == IF VaryingFrames(params, tabs)
                  THEN <<Warning("Found varying numbers of frames", <<>>)>> ELSE <<>>
        names == IF LabelMismatch(params, tabs)
                 THEN <<Warning("Found mismatches in names of objects.", <<>>)>> ELSE <<>>
        empty == Flatten([i \in 1..Len(params) |->
                    IF EmptyColumnsFound(tabs[params[i]])
                    THEN <<Warning("Found empty columns for parameter", params[i])>>
                    ELSE <<>>])
        warnings == frames \o names \o empty
    IN  IF warnings = <<>> THEN <<Info("No errors found - all good!")>> ELSE warnings

----------------------------------------------------------------------------
(* Collection *)

\* A Series (one value per object) is a record [index, values]: it has one
\* dimension, a DataFrame two.
NDim(values) == IF "columns" \in DOMAIN values THEN 2 ELSE 1

RECURSIVE Gcd(_, _)
Gcd(a, b) == IF b = 0 THEN a ELSE Gcd(b, a % b)

RECURSIVE Sum(_)
Sum(xs) == IF xs = <<>> THEN 0 ELSE Head(xs) + Sum(Tail(xs))

\* The floats of a comparison table are <<numerator, denominator>> in lowest
\* terms; a missing one is <<NaN, 1>>.
Float(v) == <<v, 1>>

\* Series.mean(): the mean of the non-missing values, NaN without any.
MeanOf(column) ==
    LET valid == SelectSeq(column, LAMBDA v : ~IsNull(v))
        g == Gcd(Sum(valid), Len(valid))
    IN  IF valid = <<>> THEN Float(NaN)
        ELSE <<Sum(valid) \div g, Len(valid) \div g>>

\* Lines 171-174: the values of a Series, the column means of a DataFrame.
Means(values) ==
    IF NDim(values) = 1
    THEN [j \in 1..Len(values.values) |-> Float(values.values[j])]
    ELSE [j \in 1..NCols(values) |-> MeanOf([i \in 1..NRows(values) |-> values.data[i][j]])]

\* Lines 120-122: an Experiment is held as its attributes, one per parameter.
Attach(c, exp, label) ==
    [k \in DOMAIN c \cup {label} |->
        IF k = label THEN exp
        ELSE IF k = "experiments" THEN Append(c.experiments, label)
        ELSE c[k]]

\* Lines 151-156: Collection.parameters, the union over the experiments.
CollectionParameters(c) ==
    UNION {DOMAIN c[c.experiments[i]] : i \in 1..Len(c.experiments)}

\* Line 169: getattr( exp, param ) raises for an experiment without param.
Lacking(c) ==
    {param \in CollectionParameters(c) :
        \E i \in 1..Len(c.experiments) : param \notin DOMAIN c[c.experiments[i]]}

\* Lines 165-176: pd.DataFrame( data, index=self.experiments ).T, one column
\* per entry of experiments, the shorter ones padded with NaN.
Compare(c, param) ==
    LET data == [i \in 1..Len(c.experiments) |-> Means(c[c.experiments[i]][param])]
        n == CHOOSE m \in {Len(data[i]) : i \in 1..Len(data)} :
                \A i \in 1..Len(data) : Len(data[i]) <= m
    IN  [index |-> [r \in 1..n |-> r - 1],
         columns |-> c.experiments,
         data |-> [r \in 1..n |-> [i \in 1..Len(data) |->
                    IF r <= Len(data[i]) THEN data[i][r] ELSE Float(NaN)]]]

\* The comparison tables a collection holds, one attribute per parameter.
Comparison(c) == IF "comparison" \in DOMAIN c THEN c.comparison ELSE <<>>

\* Line 177 for the parameters of done: setattr(self, param, df).
SetComparison(c, done) ==
    [k \in DOMAIN c \cup {"comparison"} |->
        IF k = "comparison"
        THEN [param \in DOMAIN Comparison(c) \cup done |->
                IF param \in done THEN Compare(c, param) ELSE Comparison(c)[param]]
        ELSE c[k]]

\* Lines 114-115: the label of a call, generated when none is given.
LabelOf(c, label) ==
    IF label = "" THEN "exp_" \o ToString(Len(c.experiments) + 1) ELSE label

\* An Experiment object passed to add_data.
Exp(tabs) == [kind |-> "Experiment", tables |-> tabs]

\* Lines 247-277 and 299-332 in one step: Experiment( x, keep_raw ), the
\* attributes of the new experiment or the exception.
NewExperiment(x, cfg, sort_union) ==
    IF ~Truthy(x) THEN [ok |-> TRUE, tables |-> <<>>]
    ELSE LET r == ParseFiles(x, FALSE)
         IN  IF ~r.ok THEN r
             ELSE IF Len(r.files) = 0 THEN Raise("No files found")
             ELSE LET raw == Repair(Concat([i \in 1..Len(r.files) |-> ReadCsv(r.files[i])],
                                           sort_union))
                  IN  [ok |-> TRUE,
                       tables |-> CleanTables(FindParameters(raw), ExtractTables(raw), cfg)]

----------------------------------------------------------------------------
(* The inputs drawn: configurations and CSV files. *)

\* pyfim.config.default_parameters, the entries core.py reads.
Config == [FILE_FORMAT |-> ".csv",
           MIN_TRACK_LENGTH |-> 0,
           CUT_TABLE_HEAD |-> 0,
           CUT_TABLE_TAIL |-> 0,
           PIXEL2MM |-> FALSE,
           PIXEL_PER_MM |-> 2,
           SPATIAL_PARAMS |-> {head_x, head},
           AREA_PARAMS |-> {area},
           FILL_GAPS |-> FALSE,
           THRESHOLDED_PARAMS |-> {go_phase},
           MAX_GAP_SIZE |-> 1,
           TC_PARAM |-> head_x,
           TC_BOUNDARY |-> 1,
           TC_CONTROL_SIDE |-> 0]

\* A CSV file: for each name of names and each frame of frames (in that
\* order) a row "name(frame)"; mats[a][i][j] is the cell of the a-th name,
\* the i-th frame and the j-th object column.
MakeCsv(names, frames, ncols, mats) ==
    LET rows == Flatten([a \in 1..Len(names) |->
                    [i \in 1..Len(frames) |-> <<a, i>>]])
    IN  [index |-> [r \in 1..Len(rows) |-> Label(names[rows[r][1]], frames[rows[r][2]])],
         columns |-> [j \in 1..ncols |-> j],
         data |-> [r \in 1..Len(rows) |-> mats[rows[r][1]][rows[r][2]]]]

\* The matrices of nrows x ncols cells drawn from a set of values.
Matrices(nrows, ncols, values) == [1..nrows -> [1..ncols -> values]]

FramesFrom0(n) == [i \in 1..n |-> i - 1]

\* The table shapes <<objects, frames>> of at most max_cells cells.
Shapes(max_objects, max_cells) ==
    {s \in (1..max_objects) \X (1..max_cells) : s[1] * s[2] <= max_cells}

\* A CSV file of complete tracks: every cell valid, a square that tells the
\* parameter and the frame.
FullCsv(names, frames, ncols) ==
    MakeCsv(names, frames, ncols,
        [a \in 1..Len(names) |-> [i \in 1..Len(frames) |-> [j \in 1..ncols |->
            (20 * Len(names[a]) + frames[i]) * (20 * Len(names[a]) + frames[i])]]])

\* The x of add_data: experiments with velocity as one value per object
\* or as a table of frames, one of them with head_x as well; a CSV file,
\* and inputs that give an empty experiment or no experiment at all.
AddedData ==
    {Exp(velocity :> [index |-> <<0, 1>>, values |-> <<3, 5>>]),
     Exp(velocity :> [index |-> <<0, 1>>, columns |-> <<0, 1>>,
                      data |-> <<<<1, 4>>, <<2, NaN>>>>]),
     Exp(velocity :> [index |-> <<0>>, columns |-> <<0>>, data |-> <<<<6>>>>] @@
         head_x :> [index |-> <<0>>, columns |-> <<0>>, data |-> <<<<2>>>>]),
     Str(Track(1)), None, Str(Dir("empty"))}

\* The label of add_data: none (generated), or one the caller gives.
Labels == {"", "a", "exp_2"}

----------------------------------------------------------------------------
(* The steps of Experiment.__init__ and split_data. *)

EmptyCollection == [experiments |-> <<>>]

\* Lines 247-258: resolve the input, or initialise an empty experiment.
Construct ==
    /\ pc = "new"
    /\ IF Truthy(f)
       THEN LET r == ParseFiles(f, call.include_subfolders)
            IN  IF ~r.ok
                THEN /\ pc' = "raised"
                     /\ error' = r.error
                     /\ UNCHANGED <<files, parameters>>
                ELSE IF Len(r.files) = 0
                THEN /\ pc' = "raised"
                     /\ error' = "No files found"
                     /\ UNCHANGED <<files, parameters>>
                ELSE /\ pc' = "resolved"
                     /\ files' = r.files
                     /\ UNCHANGED <<error, parameters>>
       ELSE /\ pc' = "constructed"
            /\ parameters' = <<>>
            /\ UNCHANGED <<files, error>>
    /\ UNCHANGED <<added, log>>
    /\ UNCHANGED <<f, fs, defaults, call, raw_data, tables, col>>

\* Lines 261-264: read every file and concatenate along the columns.
ReadAndMerge ==
    /\ pc = "resolved"
    /\ \E sort_union \in BOOLEAN :
        raw_data' = Concat([i \in 1..Len(files) |-> ReadCsv(files[i])], sort_union)
    /\ pc' = "concatenated"
    /\ UNCHANGED <<added, log>>
    /\ UNCHANGED <<f, fs, defaults, call, files, parameters, tables, error, col>>

\* Lines 269-272: fix the row order and renumber the objects.
RepairIndex ==
    /\ pc = "concatenated"
    /\ raw_data' = Repair(raw_data)
    /\ pc' = "merged"
    /\ UNCHANGED <<added, log>>
    /\ UNCHANGED <<f, fs, defaults, call, files, parameters, tables, error, col>>

\* Lines 303-321: Experiment.extract_data up to the call of clean_data.
ExtractData ==
    /\ pc = "merged"
    /\ parameters' = FindParameters(raw_data)
    /\ tables' = ExtractTables(raw_data)
    /\ pc' = "extracted"
    /\ UNCHANGED <<added, log>>
    /\ UNCHANGED <<f, fs, defaults, call, files, raw_data, error, col>>

\* Lines 365-425: Experiment.clean_data.
CleanData ==
    /\ pc = "extracted"
    /\ tables' = CleanTables(parameters, tables, defaults)
    /\ pc' = "cleaned"
    /\ UNCHANGED <<added, log>>
    /\ UNCHANGED <<f, fs, defaults, call, files, raw_data, parameters, error, col>>

\* Lines 276-277: the raw data is discarded unless keep_raw.
Finish ==
    /\ pc = "cleaned"
    /\ raw_data' = IF call.keep_raw THEN raw_data ELSE NoData
    /\ pc' = "constructed"
    /\ UNCHANGED <<added, log>>
    /\ UNCHANGED <<f, fs, defaults, call, files, parameters, tables, error, col>>

\* Lines 603-653: TwoChoiceExperiment.split_data.
SplitData ==
    /\ pc = "constructed"
    /\ call.class = "TwoChoiceExperiment"
    /\ parameters # <<>>
    /\ defaults.TC_CONTROL_SIDE \in {0, 1}
    /\ LET tc_param == tables[defaults.TC_PARAM]
           lower_mask == Mask(tc_param, defaults.TC_BOUNDARY, TRUE)
           upper_mask == Mask(tc_param, defaults.TC_BOUNDARY, FALSE)
           ctrl_mask == IF defaults.TC_CONTROL_SIDE = 0 THEN lower_mask ELSE upper_mask
           exp_mask == IF defaults.TC_CONTROL_SIDE = 0 THEN upper_mask ELSE lower_mask
       IN  \E exp_univ \in Orders(SideUniv(tables, exp_mask, defaults)),
              ctrl_univ \in Orders(SideUniv(tables, ctrl_mask, defaults)) :
             LET experiment == SideTables(tables, exp_mask, defaults, exp_univ)
                 control == SideTables(tables, ctrl_mask, defaults, ctrl_univ)
                 c == Attach(Attach(EmptyCollection, experiment, "experiment"),
                             control, "control")
             IN  /\ col' = SetComparison(c, CollectionParameters(c))
                 /\ added' = <<[label |-> "experiment", exp |-> experiment],
                               [label |-> "control", exp |-> control]>>
    /\ pc' = "split"
    /\ UNCHANGED log
    /\ UNCHANGED <<f, fs, defaults, call, files, raw_data, parameters, tables, error>>

\* Lines 90-127: Collection.add_data, with the Experiment it constructs
\* from an x that is not one and the extract_data it ends with. When some
\* experiment lacks a parameter of the union, extract_data raises at that
\* parameter, after the tables of the parameters it visited before.
AddData ==
    /\ pc = "collection"
    /\ Len(added) < MaxAdds
    /\ \E x \in AddedData, label \in Labels, sort_union \in BOOLEAN :
        LET new == IF x.kind = "Experiment"
                   THEN [ok |-> TRUE, tables |-> x.tables]
                   ELSE NewExperiment(x, defaults, sort_union)
        IN  IF ~new.ok
            THEN /\ error' = new.error
                 /\ UNCHANGED <<col, added>>
            ELSE LET c == Attach(col, new.tables, LabelOf(col, label))
                 IN  /\ added' = Append(added, [label |-> LabelOf(col, label),
                                                exp |-> new.tables])
                     /\ IF Lacking(c) = {}
                        THEN /\ col' = SetComparison(c, CollectionParameters(c))
                             /\ error' = "none"
                        ELSE /\ \E done \in SUBSET (CollectionParameters(c) \ Lacking(c)) :
                                    col' = SetComparison(c, done)
                             /\ error' = "AttributeError"
    /\ UNCHANGED <<pc, f, fs, defaults, call, files, raw_data, parameters, tables, log>>

\* Lines 477-503: Experiment.sanity_check on a constructed experiment; on
\* one without parameters shapes[0] raises.
SanityCheck ==
    /\ pc = "constructed"
    /\ pc' = "checked"
    /\ IF parameters = <<>>
       THEN /\ error' = "IndexError"
            /\ UNCHANGED log
       ELSE /\ log' = log \o SanityLog(parameters, tables)
            /\ UNCHANGED error
    /\ UNCHANGED <<f, fs, defaults, call, files, raw_data, parameters, tables, col, added>>

NextExperiment ==
    \/ Construct
    \/ ReadAndMerge
    \/ RepairIndex
    \/ ExtractData
    \/ CleanData
    \/ Finish

Next == NextExperiment \/ SplitData

NextCheck == NextExperiment \/ SanityCheck

\* The state before Experiment.__init__ runs.
Start ==
    /\ pc = "new"
    /\ files = <<>>
    /\ raw_data = NoData
    /\ parameters = <<>>
    /\ tables = <<>>
    /\ error = "none"
    /\ col = EmptyCollection
    /\ added = <<>>
    /\ log = <<>>

Call(class, keep_raw, include_subfolders) ==
    [class |-> class, keep_raw |-> keep_raw, include_subfolders |-> include_subfolders]

----------------------------------------------------------------------------
(* Experiments built from several CSV files over uneven frame ranges. *)

NameLists == {<<head_x>>, <<head_x, area>>, <<head, head_x>>}

\* The frame numbers of a file: some of 1, 2 and MaxFrame, ascending.
FrameLists ==
    {SelectPos(MaxFrame, S) : S \in (SUBSET {1, 2, MaxFrame}) \ {{}}}

FileSets ==
    UNION {[1..n -> {FullCsv(names, frames, ncols) :
                        frames \in FrameLists, ncols \in 1..MaxCols}] :
           n \in 1..MaxFiles, names \in NameLists}

\* The inputs that name CSV files of fs.
ValidInputs(n) ==
    {Str(Dir("data")),
     List(<<File(n), List([i \in 1..(n - 1) |-> Str(Track(n - i))])>>)}

\* The inputs that name no CSV file, or nothing readable.
OtherInputs ==
    {None, Str(Path("", 0, "")), List(<<>>), List(<<List(<<>>)>>),
     List(<<List(<<>>), List(<<>>)>>), Str(Dir("empty")), Str(Dir("nested")),
     Str(Dir("nowhere")), Number, List(<<Str(Track(1)), Number>>),
     List(<<Str(Dir("nested"))>>)}

\* Section 8's end-to-end scenario: three single-object files, frames 0-4.
ScenarioFiles ==
    LET file(column) ==
            MakeCsv(<<head_x>>, FramesFrom0(5), 1,
                    <<[i \in 1..5 |-> <<column[i]>>]>>)
    IN  <<file(<<0, 1, 2, 3, 4>>), file(<<5, 4, 3, 2, 1>>),
          file(<<NaN, NaN, 1, 1, 1>>)>>

InitFiles ==
    /\ fs \in FileSets
    /\ \/ /\ f \in ValidInputs(Len(fs))
          /\ defaults \in {[Config EXCEPT !.MIN_TRACK_LENGTH = m] : m \in {0, 2}}
          /\ call = Call("Experiment", FALSE, FALSE)
       \/ /\ f \in OtherInputs
          /\ Len(fs) = 1
          /\ defaults = Config
          /\ call \in {Call("Experiment", FALSE, FALSE), Call("Experiment", TRUE, TRUE)}

InitScenario ==
    /\ fs = ScenarioFiles
    /\ f = List([i \in 1..3 |-> Str(Track(i))])
    /\ defaults = [Config EXCEPT !.MIN_TRACK_LENGTH = 3]
    /\ call = Call("Experiment", TRUE, FALSE)

Init == Start /\ (InitFiles \/ InitScenario)

Spec == Init /\ [][NextExperiment]_vars

----------------------------------------------------------------------------
(* Experiments built from one CSV file whose cells are drawn. *)

OneFile(csv) ==
    /\ fs = <<csv>>
    /\ f = Str(Track(1))

\* Tracks with missing samples: what the object filters of clean_data see.
InitClean ==
    /\ Start
    /\ \E s \in Shapes(MaxObjects, MaxCells) :
         \E mats \in [1..2 -> Matrices(s[2], s[1], {NaN, 1})] :
            OneFile(MakeCsv(<<head_x, go_phase>>, FramesFrom0(s[2]), s[1], mats))
    /\ defaults \in {[Config EXCEPT !.MIN_TRACK_LENGTH = m] : m \in 0..MaxMinTrack}
    /\ call = Call("Experiment", FALSE, FALSE)

SpecClean == InitClean /\ [][NextExperiment]_vars

\* Complete tracks, trimmed and converted to mm.
InitCut ==
    /\ Start
    /\ \E n \in 1..MaxCutRows, k \in 1..2 :
         OneFile(FullCsv(<<head_x, area>>, FramesFrom0(n), k))
    /\ defaults \in {[Config EXCEPT !.CUT_TABLE_HEAD = h, !.CUT_TABLE_TAIL = t,
                                    !.PIXEL2MM = mm] :
                        h \in 0..MaxCut, t \in 0..MaxCut, mm \in BOOLEAN}
    /\ call \in {Call("Experiment", FALSE, FALSE), Call("Experiment", TRUE, FALSE)}

SpecCut == InitCut /\ [][NextExperiment]_vars

\* One object with a thresholded parameter of zeros, values and gaps.
InitFill ==
    /\ Start
    /\ \E n \in 1..MaxFillRows :
         \E go \in Matrices(n, 1, {NaN, 0, 1, 4}) :
            OneFile(MakeCsv(<<go_phase, head_x>>, FramesFrom0(n), 1,
                            <<go, [i \in 1..n |-> <<1>>]>>))
    /\ defaults \in {[Config EXCEPT !.FILL_GAPS = fill, !.MAX_GAP_SIZE = g] :
                        fill \in BOOLEAN, g \in 1..MaxGap}
    /\ call = Call("Experiment", FALSE, FALSE)

SpecFill == InitFill /\ [][NextExperiment]_vars

\* A two-choice experiment: head_x on both sides of the boundary, go_phase
\* complete or lacking its first frame.
InitSplit ==
    /\ Start
    /\ \E s \in Shapes(MaxObjects, MaxSplitCells) :
         \E tc \in Matrices(s[2], s[1], {NaN, 0, 1, 4}), late \in SUBSET (1..s[1]) :
            OneFile(MakeCsv(<<go_phase, head_x>>, FramesFrom0(s[2]), s[1],
                <<[i \in 1..s[2] |-> [j \in 1..s[1] |->
                        IF i = 1 /\ j \in late THEN NaN ELSE 1]],
                  tc>>))
    /\ defaults \in {[Config EXCEPT !.MIN_TRACK_LENGTH = m, !.TC_CONTROL_SIDE = side] :
                        m \in 0..MaxMinTrack, side \in {0, 1}}
    /\ call = Call("TwoChoiceExperiment", FALSE, FALSE)

SpecSplit == InitSplit /\ [][Next]_vars

\* Experiments to check: tracks with missing samples, the second parameter
\* with or without its last frame, the first frame trimmed or not; and an
\* experiment without data.
InitCheck ==
    /\ Start
    /\ \/ /\ \E s \in Shapes(MaxObjects, MaxCells) :
               \E mats \in [1..2 -> Matrices(s[2], s[1], {NaN, 1})], short \in 0..1 :
                  LET csv == MakeCsv(<<head_x, area>>, FramesFrom0(s[2]), s[1], mats)
                  IN  OneFile(TakeRows(csv, [r \in 1..(NRows(csv) - short) |-> r]))
          /\ defaults \in {[Config EXCEPT !.CUT_TABLE_HEAD = h] : h \in 0..1}
       \/ /\ fs = <<FullCsv(<<head_x>>, FramesFrom0(1), 1)>>
          /\ f = None
          /\ defaults = Config
    /\ call = Call("Experiment", FALSE, FALSE)

SpecCheck == InitCheck /\ [][NextCheck]_vars

\* A Collection filled by add_data; track1.csv holds velocity and head_x of
\* one object over two frames.
InitCollection ==
    /\ pc = "collection"
    /\ f = None
    /\ fs = <<MakeCsv(<<velocity, head_x>>, FramesFrom0(2), 1,
                      <<<<<<1>>, <<2>>>>, <<<<1>>, <<1>>>>>>)>>
    /\ defaults = Config
    /\ call = Call("Collection", FALSE, FALSE)
    /\ files = <<>>
    /\ raw_data = NoData
    /\ parameters = <<>>
    /\ tables = <<>>
    /\ error = "none"
    /\ col = EmptyCollection
    /\ added = <<>>
    /\ log = <<>>

SpecCollection == InitCollection /\ [][AddData]_vars

----------------------------------------------------------------------------
(* Properties of clean_data. *)

\* The parameter tables as extract_data left them, before clean_data ran
\* (the raw data is still attached while the constructor runs).
Before == ExtractTables(raw_data)

AllObjects == Range(raw_data.columns)

ColumnsOf(tabs, p) == Range(tabs[p].columns)

\* C1: an object whose head_x column has fewer than MIN_TRACK_LENGTH valid
\* samples before cleaning is a column of no parameter table after cleaning.
C1_ShortTracksDropped ==
    pc = "cleaned" =>
        \A obj \in AllObjects :
            Count(Before[head_x], obj) < defaults.MIN_TRACK_LENGTH =>
                \A p \in DOMAIN tables : obj \notin ColumnsOf(tables, p)

\* A track that is short but alive in every parameter was dropped, while
\* another object stayed.
C1_Witness ==
    /\ pc = "cleaned"
    /\ \E obj \in AllObjects :
        /\ Count(Before[head_x], obj) < defaults.MIN_TRACK_LENGTH
        /\ \A p \in DOMAIN Before : Count(Before[p], obj) > 0
        /\ obj \notin ColumnsOf(tables, go_phase)
    /\ ColumnsOf(tables, go_phase) # {}

\* C2: an object whose column has no valid value in at least one parameter
\* table before cleaning is a column of no parameter table after cleaning,
\* whatever MIN_TRACK_LENGTH is (0 included).
C2_DeadObjectsDropped ==
    pc = "cleaned" =>
        \A obj \in AllObjects :
            (\E p \in DOMAIN Before : Count(Before[p], obj) = 0) =>
                \A q \in DOMAIN tables : obj \notin ColumnsOf(tables, q)

\* With MIN_TRACK_LENGTH = 0, an object that is dead in go_phase only was
\* dropped from head_x too, where its column had valid values.
C2_Witness ==
    /\ pc = "cleaned"
    /\ defaults.MIN_TRACK_LENGTH = 0
    /\ \E obj \in AllObjects :
        /\ Count(Before[go_phase], obj) = 0
        /\ Count(Before[head_x], obj) > 0
        /\ obj \notin ColumnsOf(tables, head_x)
    /\ ColumnsOf(tables, head_x) # {}

----------------------------------------------------------------------------
(* Properties of the raw merge and of the extraction. *)

KnownNames == {head_x, area, head, go_phase}

\* The parameter name and the frame number a row label was written from.
Written(label) ==
    CHOOSE nf \in KnownNames \X (0..MaxFrame) : Label(nf[1], nf[2]) = label

NameOf(label) == Written(label)[1]
FrameOf(label) == Written(label)[2]

\* The tables read from the resolved sources.
Sources == [i \in 1..Len(files) |-> ReadCsv(files[i])]

RECURSIVE TotalCols(_)
TotalCols(dfs) == IF dfs = <<>> THEN 0 ELSE NCols(Head(dfs)) + TotalCols(Tail(dfs))

\* The raw table is attached and repaired.
Merged == pc \in {"merged", "extracted", "cleaned"}

\* C4: after the repair the rows are in non-decreasing order of (parameter
\* name, frame number as an integer); every row label of every source is a
\* row; the columns are object_0 .. object_(k-1), k the number of object
\* columns over all sources.
C4_MergedRowsOrdered ==
    Merged =>
        /\ \A i \in 1..(NRows(raw_data) - 1) :
            LET a == raw_data.index[i]
                b == raw_data.index[i + 1]
            IN  \/ StrLess(NameOf(a), NameOf(b))
                \/ NameOf(a) = NameOf(b) /\ FrameOf(a) <= FrameOf(b)
        /\ Range(raw_data.index) = UNION {Range(Sources[i].index) : i \in 1..Len(files)}
        /\ raw_data.columns = [j \in 1..TotalCols(Sources) |-> j - 1]

\* Two files over different frames were merged: frame 2 of head_x stands
\* before frame MaxFrame, and one file lacks a frame the other has.
C4_Witness ==
    /\ pc = "merged"
    /\ Len(files) = 2
    /\ Sources[1].index # Sources[2].index
    /\ NCols(raw_data) > 2
    /\ \E i, j \in 1..NRows(raw_data) :
        /\ i < j
        /\ raw_data.index[i] = Label(head_x, 2)
        /\ raw_data.index[j] = Label(head_x, MaxFrame)

\* The rows of the raw table that carry exactly the name p.
RowsNamed(raw, p) ==
    SelectPos(NRows(raw), {i \in 1..NRows(raw) : NameOf(raw.index[i]) = p})

\* C5: every merged row name(frame) ends up in exactly one parameter table,
\* the table of the name before "(", also when one name is a substring of
\* another; each table's frame index is 0..n-1 in frame order, n the number
\* of merged rows carrying that name.
C5_ExtractionPartitions ==
    pc = "extracted" =>
        /\ DOMAIN tables = {NameOf(raw_data.index[i]) : i \in 1..NRows(raw_data)}
        /\ \A p \in DOMAIN tables :
            LET rows == RowsNamed(raw_data, p)
            IN  /\ tables[p].index = [i \in 1..Len(rows) |-> i - 1]
                /\ tables[p].data = [i \in 1..Len(rows) |-> raw_data.data[rows[i]]]

\* The valid samples of parameter p the sources hold for an object.
SourceCount(p, obj) ==
    Cardinality({i \in 1..NRows(raw_data) :
        /\ NameOf(raw_data.index[i]) = p
        /\ ~IsNull(raw_data.data[i][ColPos(raw_data, obj)])})

\* The objects cleaning has no reason to drop.
Sound(obj) ==
    /\ SourceCount(head_x, obj) >= defaults.MIN_TRACK_LENGTH
    /\ \A p \in {NameOf(raw_data.index[i]) : i \in 1..NRows(raw_data)} :
        SourceCount(p, obj) > 0

DistinctFrames == {FrameOf(raw_data.index[i]) : i \in 1..NRows(raw_data)}

\* C3: every object with at least MIN_TRACK_LENGTH valid head_x samples and
\* no fully-missing column stays a column of every table; without trimming,
\* n_objects is the number of such objects and n_frames the number of
\* distinct frames of the outer-joined sources.
C3_NeverOverDrops ==
    pc = "cleaned" =>
        /\ \A obj \in AllObjects :
            Sound(obj) => \A p \in DOMAIN tables : obj \in ColumnsOf(tables, p)
        /\ (defaults.CUT_TABLE_HEAD = 0 /\ defaults.CUT_TABLE_TAIL = 0) =>
            /\ NObjects(parameters, tables) =
                    Cardinality({obj \in AllObjects : Sound(obj)})
            /\ NFrames(parameters, tables) = Cardinality(DistinctFrames)

\* C3's scenario of three single-object files: 3 objects, 5 frames.
C3_Scenario ==
    (pc = "cleaned" /\ fs = ScenarioFiles) =>
        /\ NObjects(parameters, tables) = 3
        /\ NFrames(parameters, tables) = 5

\* No parameter name of the files occurs inside another row's label.
NoNameClash ==
    \A i, k \in 1..NRows(raw_data) :
        Contains(raw_data.index[i], NameOf(raw_data.index[k])) =>
            NameOf(raw_data.index[i]) = NameOf(raw_data.index[k])

\* C3 and C5 on the inputs on which the substring test of line 315 and the
\* prefix of line 307 agree.
C3_WithoutNameClash == (Merged /\ NoNameClash) => C3_NeverOverDrops
C5_WithoutNameClash == (Merged /\ NoNameClash) => C5_ExtractionPartitions

----------------------------------------------------------------------------
(* Properties of the trimming and of the gap fill. *)

\* C6: with CUT_TABLE_HEAD = h and CUT_TABLE_TAIL = t, a table of n >= h + t
\* frames is left with exactly its frames h .. n-t-1.
C6_TrimsBothEnds ==
    pc = "cleaned" =>
        \A p \in DOMAIN tables :
            LET n == NRows(Before[p])
                h == defaults.CUT_TABLE_HEAD
                t == defaults.CUT_TABLE_TAIL
            IN  n >= h + t =>
                    tables[p].index = [i \in 1..(n - h - t) |-> h + i - 1]

\* The trimming of the head alone does what C6 says.
C6_HeadOnly ==
    (pc = "cleaned" /\ defaults.CUT_TABLE_TAIL = 0) => C6_TrimsBothEnds

\* The thresholded column of the single object, before and after the fill.
GoBefore == ColumnOf(Before[go_phase], 1)
GoAfter == ColumnOf(tables[go_phase], 1)

Filled ==
    /\ pc = "cleaned"
    /\ defaults.FILL_GAPS
    /\ NCols(tables[go_phase]) = 1

\* The zero run of column c around position i: its first and last position.
RunStart(c, i) == CHOOSE a \in 1..i :
    /\ \A k \in a..i : c[k] = 0
    /\ a = 1 \/ c[a - 1] # 0
RunEnd(c, i) == CHOOSE b \in i..Len(c) :
    /\ \A k \in i..b : c[k] = 0
    /\ b = Len(c) \/ c[b + 1] # 0
RunLength(c, i) == RunEnd(c, i) - RunStart(c, i) + 1

\* Position i of column c has a value (not missing, not zero) above it.
HasValueAbove(c, i) == \E k \in 1..(i - 1) : ~IsNull(c[k]) /\ c[k] # 0

\* C7: a zero is replaced, by the most recent value above it, only if it
\* lies in a zero run of at most MAX_GAP_SIZE cells; every cell of a longer
\* run, and every zero with no value above it, is still zero after the fill.
C7_OnlyBoundedGapsBridged ==
    Filled =>
        \A i \in 1..Len(GoBefore) :
            GoBefore[i] = 0 =>
                IF RunLength(GoBefore, i) > defaults.MAX_GAP_SIZE
                   \/ ~HasValueAbove(GoBefore, i)
                THEN GoAfter[i] = 0
                ELSE GoAfter[i] \in {0, GoAfter[RunStart(GoBefore, i) - 1]}

\* C8: the fill changes no cell of an already filled table; and when the
\* table had no zero run longer than MAX_GAP_SIZE, no cell with a value
\* above it is zero or missing after the fill.
C8_FillIdempotent ==
    Filled =>
        /\ FillGaps(tables[go_phase], defaults.MAX_GAP_SIZE) = tables[go_phase]
        /\ (\A i \in 1..Len(GoBefore) :
                GoBefore[i] = 0 => RunLength(GoBefore, i) <= defaults.MAX_GAP_SIZE) =>
            \A i \in 1..Len(GoAfter) :
                HasValueAbove(GoBefore, i) => GoAfter[i] \notin {0, NaN}

----------------------------------------------------------------------------
(* Properties of split_data. *)

\* The objects of the experiment that is split, and of a sub-experiment.
SplitObjects == UNION {ColumnsOf(tables, p) : p \in DOMAIN tables}
GroupObjects(group) == UNION {ColumnsOf(group, p) : p \in DOMAIN group}

\* The sub-experiment of the values <= TC_BOUNDARY (lower) or > TC_BOUNDARY.
GroupOf(lower) ==
    IF lower = (defaults.TC_CONTROL_SIDE = 0) THEN col.control ELSE col.experiment

\* The TC_PARAM value of an object at row i.
TcValue(obj, i) ==
    LET tc == tables[defaults.TC_PARAM] IN tc.data[i][ColPos(tc, obj)]

OnSide(v, lower) ==
    /\ ~IsNull(v)
    /\ IF lower THEN v <= defaults.TC_BOUNDARY ELSE v > defaults.TC_BOUNDARY

\* The valid samples of parameter p an object has in the frames in which
\* its TC_PARAM value is on the given side.
SideCount(p, obj, lower) ==
    Cardinality({i \in 1..NRows(tables[p]) :
        /\ ~IsNull(tables[p].data[i][ColPos(tables[p], obj)])
        /\ OnSide(TcValue(obj, i), lower)})

----------------------------------------------------------------------------
(* Properties of the input resolution. *)

\* Resolving f finds no source: no file, and nothing raised on the way.
ResolvesToNothing ==
    /\ f.kind \in {"list", "str"}
    /\ ParseFiles(f, call.include_subfolders) = Ok(<<>>)

\* C10: when input resolution yields zero sources, the construction fails
\* with the empty-input error and leaves no Experiment, not even an empty one.
C10_EmptyInputFails ==
    (pc # "new" /\ ResolvesToNothing) =>
        (pc = "raised" /\ error = "No files found")

\* C10 for the inputs Python takes as true (anything but None, '' and []).
C10_TruthyEmptyInputFails ==
    (pc # "new" /\ ResolvesToNothing /\ Truthy(f)) =>
        (pc = "raised" /\ error = "No files found")

----------------------------------------------------------------------------
(* Properties of Collection. *)

\* The labels of the members, and the experiment the i-th call added.
MemberLabels == {added[i].label : i \in 1..Len(added)}

\* v is the float of the mean of the non-missing cells of a column.
IsMean(v, column) ==
    LET valid == SelectSeq(column, LAMBDA x : ~IsNull(x))
    IN  IF valid = <<>> THEN v = <<NaN, 1>>
        ELSE v[1] * Len(valid) = Sum(valid) * v[2]

\* Column j of the comparison table df holds the values of parameter param
\* of the experiment exp: its raw values, or its means over the frames.
HoldsValuesOf(df, j, exp, param) ==
    LET values == exp[param]
        n == IF NDim(values) = 1 THEN Len(values.values) ELSE NCols(values)
    IN  /\ NRows(df) >= n
        /\ \A r \in 1..NRows(df) :
            IF r > n THEN df.data[r][j] = <<NaN, 1>>
            ELSE IF NDim(values) = 1 THEN df.data[r][j] = <<values.values[r], 1>>
            ELSE IsMean(df.data[r][j], [i \in 1..NRows(values) |-> values.data[i][r]])

\* C11: after any sequence of add_data calls the collection holds one
\* (label, Experiment) pair per call, in insertion order, and for every
\* parameter of Collection.parameters the comparison table has exactly one
\* column per member label, the column under a label holding the values of
\* the experiment added under it (raw values of a Series, means over the
\* frames of a table).
C11_CollectionConsistent ==
    pc \in {"collection", "split"} =>
        /\ Len(col.experiments) = Len(added)
        /\ \A i \in 1..Len(added) :
            /\ col.experiments[i] = added[i].label
            /\ col[added[i].label] = added[i].exp
        /\ \A param \in CollectionParameters(col) :
            /\ param \in DOMAIN Comparison(col)
            /\ LET df == Comparison(col)[param]
               IN  /\ \A j \in 1..NCols(df) : df.columns[j] \in MemberLabels
                   /\ \A label \in MemberLabels :
                        Cardinality({j \in 1..NCols(df) : df.columns[j] = label}) = 1
                   /\ \A i \in 1..Len(added) :
                        /\ param \in DOMAIN added[i].exp
                        /\ \E j \in 1..NCols(df) :
                            /\ df.columns[j] = added[i].label
                            /\ HoldsValuesOf(df, j, added[i].exp, param)

\* Every call took a label of its own, and every experiment has every
\* parameter of the collection.
DistinctLabels == Cardinality(MemberLabels) = Len(added)
SameParameters ==
    \A i, j \in 1..Len(added) : DOMAIN added[i].exp = DOMAIN added[j].exp

\* C11 for the collections whose labels are distinct and whose experiments
\* have the same parameters.
C11_DistinctLabelsSameParameters ==
    (DistinctLabels /\ SameParameters) => C11_CollectionConsistent

----------------------------------------------------------------------------
(* Properties of sanity_check. *)

Warned == \E i \in 1..Len(log) : log[i].level = "warning"
AllGood == \E i \in 1..Len(log) : log[i] = Info("No errors found - all good!")

\* Two parameter tables differ in their number of frames or of objects.
ShapesDiffer ==
    \E p, q \in DOMAIN tables :
        NRows(tables[p]) # NRows(tables[q]) \/ NCols(tables[p]) # NCols(tables[q])

LabelsDiffer ==
    \E p, q \in DOMAIN tables : Range(tables[p].columns) # Range(tables[q].columns)

\* The parameters with a column without any valid value.
WithEmptyColumn ==
    {p \in DOMAIN tables :
        \E j \in 1..NCols(tables[p]) :
            \A i \in 1..NRows(tables[p]) : IsNull(tables[p].data[i][j])}

\* sanity_check ran on an experiment with data.
Checked == pc = "checked" /\ parameters # <<>>

\* C12: when two parameter tables differ in frame count or in object
\* count, sanity_check emits a warning, does not log 'No errors found' and
\* does not raise; when all tables have the same shape and column labels
\* and no empty column, it emits no warning.
C12_ShapeDiscrepanciesReported ==
    Checked =>
        /\ ShapesDiffer => (Warned /\ ~AllGood /\ error = "none")
        /\ (~ShapesDiffer /\ ~LabelsDiffer /\ WithEmptyColumn = {}) => ~Warned

\* C12's second half alone: no warning for tables of the same shape and
\* labels without an empty column.
C12_NoFalseAlarm ==
    Checked => ((~ShapesDiffer /\ ~LabelsDiffer /\ WithEmptyColumn = {}) => ~Warned)

\* C13: when some parameter table has a column with zero valid values,
\* sanity_check emits a warning naming that parameter and does not log
\* 'No errors found'.
C13_EmptyColumnsReported ==
    Checked =>
        \A p \in WithEmptyColumn :
            /\ \E i \in 1..Len(log) : log[i].level = "warning" /\ log[i].param = p
            /\ ~AllGood

====
